---- MODULE Spec2Model ----
(***************************************************************************)
(* Model of the Lambda@Edge authorization gate of                          *)
(* cdk/lambda-edge/auth_handler.py.                                        *)
(*                                                                         *)
(* Text is modelled as a sequence of one-character strings, so that        *)
(* rstrip, startswith, split, "in", quote and json.dumps are computed      *)
(* character by character.  Two kinds of longer elements occur, both free  *)
(* of every delimiter the code splits on: the fixed words of the login URL *)
(* and of the cookie names ("client_id", "id_token", ...), and the         *)
(* base64url text of a JSON document, which is one element naming the      *)
(* document (see Base64Json).                                              *)
(* A Python dict is a function on a finite set of keys, a list a sequence. *)
(***************************************************************************)
EXTENDS Integers, Sequences, FiniteSets, TLC

VARIABLES
    event,      \* the event handed to handler, as received
    now,        \* time.time() during the invocation
    request,    \* the caller's request object: handler assigns into it
    result,     \* what the invocation gave its caller
    pc,         \* "ready" before the invocation, "done" after it
    config,     \* the module-level names of auth_handler.py, lines 9-21
    script      \* the operations script under way (scripts/*.py): its
                \* inputs, files, locals, log and exit code

vars == << event, now, request, result, pc, config, script >>

\* the state of the edge gate, and no script running
gateVars == << event, now, request, result, pc, config >>

NoScript == [name |-> "none"]

----------------------------------------------------------------------------
(* Module-level configuration, auth_handler.py lines 9-21 *)

AdminRoute == << "/", "a", "d", "m", "i", "n" >>
DashboardRoute == << "/", "d", "a", "s", "h", "b", "o", "a", "r", "d" >>
ProfileRoute == << "/", "p", "r", "o", "f", "i", "l", "e" >>
ApiProtectedRoute ==
    << "/", "a", "p", "i", "/", "p", "r", "o", "t", "e", "c", "t", "e", "d" >>
SettingsRoute == << "/", "s", "e", "t", "t", "i", "n", "g", "s" >>

PROTECTED_ROUTES ==
    << AdminRoute, DashboardRoute, ProfileRoute, ApiProtectedRoute, SettingsRoute >>

COGNITO_DOMAIN == "sflt-auth.auth.ap-southeast-2.amazoncognito.com"
COGNITO_CLIENT_ID == "2chnp95qkugngcet88uiokikpm"
COGNITO_REGION == "ap-southeast-2"
USER_POOL_ID == "ap-southeast-2_u6zH1Pbty"

----------------------------------------------------------------------------
(* Python's str operations on sequences of characters *)

\* s.rstrip(c): every trailing c removed
RECURSIVE RStrip(_, _)
RStrip(s, c) ==
    IF Len(s) > 0 /\ s[Len(s)] = c
    THEN RStrip(SubSeq(s, 1, Len(s) - 1), c)
    ELSE s

\* s.lstrip(c)
RECURSIVE LStrip(_, _)
LStrip(s, c) ==
    IF Len(s) > 0 /\ s[1] = c THEN LStrip(Tail(s), c) ELSE s

\* s.strip(): the only whitespace of the model's alphabet is the space
Strip(s) == LStrip(RStrip(s, " "), " ")

\* s.startswith(p)
StartsWith(s, p) == Len(s) >= Len(p) /\ SubSeq(s, 1, Len(p)) = p

\* c in s, for one character c
HasChar(s, c) == \E i \in 1..Len(s) : s[i] = c

\* sub in s, for a substring
Contains(s, sub) ==
    \E i \in 1..(Len(s) - Len(sub) + 1) : SubSeq(s, i, i + Len(sub) - 1) = sub

\* the index of the first c in s, 0 when there is none
IndexOf(s, c) ==
    IF HasChar(s, c)
    THEN CHOOSE i \in 1..Len(s) : s[i] = c /\ \A j \in 1..(i - 1) : s[j] # c
    ELSE 0

\* s.split(c)
RECURSIVE Split(_, _)
Split(s, c) ==
    LET i == IndexOf(s, c)
    IN  IF i = 0
        THEN << s >>
        ELSE << SubSeq(s, 1, i - 1) >> \o Split(SubSeq(s, i + 1, Len(s)), c)

\* s.split(c, 1), for s that holds c
SplitOnce(s, c) ==
    LET i == IndexOf(s, c)
    IN  << SubSeq(s, 1, i - 1), SubSeq(s, i + 1, Len(s)) >>

\* the concatenation of a sequence of strings
RECURSIVE Concat(_)
Concat(ss) == IF ss = << >> THEN << >> ELSE Head(ss) \o Concat(Tail(ss))

----------------------------------------------------------------------------
(* is_protected_route, auth_handler.py lines 24-33 *)

RouteMatchesNoSlash(u, route) == u = route \/ StartsWith(u, route)

RouteMatches(u, route) == u = route \/ StartsWith(u, route \o << "/" >>)

is_protected_route(uri) ==
    LET u == RStrip(uri, "/")
    IN  \E i \in 1..Len(PROTECTED_ROUTES) : RouteMatches(u, PROTECTED_ROUTES[i])

----------------------------------------------------------------------------
(* JSON documents and the base64url text of a token's payload segment *)

\* a dict with no key, and Python's None for an optional text
EmptyDict == [k \in {} |-> 0]

NoText == [some |-> FALSE, v |-> << >>]

SomeText(s) == [some |-> TRUE, v |-> s]

\* JSON scalars as a claim can hold them
JInt(n) == [t |-> "int", n |-> n, s |-> ""]

JStr(x) == [t |-> "str", n |-> 0, s |-> x]

\* JSON documents: an object with its members, a non-empty array, null
JObject(members) == [t |-> "dict", d |-> members]

JArray == [t |-> "list", d |-> EmptyDict]

JNull == [t |-> "null", d |-> EmptyDict]

\* dict.get(key): whether the key is there, and its value
DictGet(d, key) ==
    IF key \in DOMAIN d
    THEN [has |-> TRUE, v |-> d[key]]
    ELSE [has |-> FALSE, v |-> JInt(0)]

\* Python's truth value of what dict.get returned (None when absent)
Truthy(g) ==
    /\ g.has
    /\ \/ g.v.t = "int" /\ g.v.n # 0
       \/ g.v.t = "str" /\ g.v.s # ""

\* the truth value of a parsed document: {} and None are false
DocTruthy(doc) ==
    \/ doc.t = "list"
    \/ doc.t = "dict" /\ DOMAIN doc.d # {}

----------------------------------------------------------------------------
(* is_jwt_valid, auth_handler.py lines 60-96 *)

\* the module-level configuration as one value
ModuleConfig ==
    [ PROTECTED_ROUTES |-> PROTECTED_ROUTES, COGNITO_DOMAIN |-> COGNITO_DOMAIN,
      COGNITO_CLIENT_ID |-> COGNITO_CLIENT_ID, COGNITO_REGION |-> COGNITO_REGION,
      USER_POOL_ID |-> USER_POOL_ID ]

ExpectedIssuer ==
    "https://cognito-idp." \o COGNITO_REGION \o ".amazonaws.com/" \o USER_POOL_ID

\* exp < time.time(), for an exp that is a number
Expired(exp, t) == exp < t

IsText(g, x) == g.has /\ g.v.t = "str" /\ g.v.s = x

\* the body of the try: "True", "False", or "raise" for an exception in it
jwt_checks(payload, t) ==
    IF payload.t # "dict"
    THEN "raise"                                 \* payload.get: AttributeError
    ELSE LET exp == DictGet(payload.d, "exp")
             iss == DictGet(payload.d, "iss")
             aud == DictGet(payload.d, "aud")
             token_use == DictGet(payload.d, "token_use")
         IN  IF ~Truthy(exp) THEN "False"
             ELSE IF exp.v.t # "int" THEN "raise"    \* str < float: TypeError
             ELSE IF Expired(exp.v.n, t) THEN "False"
             ELSE IF ~IsText(iss, ExpectedIssuer) THEN "False"
             ELSE IF ~IsText(aud, COGNITO_CLIENT_ID) THEN "False"
             ELSE IF ~IsText(token_use, "id") THEN "False"
             ELSE "True"

is_jwt_valid(payload, t) == jwt_checks(payload, t) = "True"

----------------------------------------------------------------------------
(* The documents a token's payload segment can encode in this model *)

TokenExp == 5

Skew == 1

OtherIssuer ==
    "https://cognito-idp." \o COGNITO_REGION \o ".amazonaws.com/" \o "ap-southeast-2_other"

Absent == [has |-> FALSE, v |-> JInt(0)]

Present(v) == [has |-> TRUE, v |-> v]

ExpChoices == { Absent, Present(JInt(TokenExp)), Present(JInt(0)), Present(JStr("soon")) }

IssChoices == { Absent, Present(JStr(ExpectedIssuer)), Present(JStr(OtherIssuer)) }

AudChoices == { Absent, Present(JStr(COGNITO_CLIENT_ID)), Present(JStr("otherclientid")) }

TokenUseChoices == { Absent, Present(JStr("id")), Present(JStr("access")) }

EmailChoices == { Absent, Present(JStr("user@example.com")) }

ClaimKeys == { "exp", "iss", "aud", "token_use", "email" }

\* the object holding the chosen members
ObjectOf(choice) ==
    JObject([k \in { c \in ClaimKeys : choice[c].has } |-> choice[k].v])

ObjectDocs ==
    { ObjectOf([exp |-> e, iss |-> i, aud |-> a, token_use |-> u, email |-> m]) :
        e \in ExpChoices, i \in IssChoices, a \in AudChoices,
        u \in TokenUseChoices, m \in EmailChoices }

JsonDocs == ObjectDocs \cup { JArray, JNull }

\* The base64url text of json.dumps(doc), padding stripped: one element of
\* a token's text, naming the document it encodes.
Base64Json(doc) == "base64url:" \o ToString(doc)

\* a segment that is not base64 of UTF-8 text, and one that is not JSON
BadBase64 == "!bad-base64!"

NotJson == "bm90IGpzb24"

DecodeTable ==
    [ seg \in { Base64Json(doc) : doc \in JsonDocs } |->
        CHOOSE doc \in JsonDocs : Base64Json(doc) = seg ]

----------------------------------------------------------------------------
(* parse_jwt_payload, auth_handler.py lines 36-57 *)

NotThree(parts) == Len(parts) < 3

WrongSegmentCount(parts) == Len(parts) # 3

\* base64.urlsafe_b64decode of the padded segment, then json.loads: the
\* document, or nothing when either raises
DecodeSegment(segment) ==
    IF Len(segment) = 1 /\ segment[1] \in DOMAIN DecodeTable
    THEN [some |-> TRUE, doc |-> DecodeTable[segment[1]]]
    ELSE [some |-> FALSE, doc |-> JNull]

parse_jwt_payload_signed(token) ==
    LET parts == Split(token, ".")
    IN  IF WrongSegmentCount(parts) \/ parts[3] = << >>
        THEN [some |-> FALSE, doc |-> JNull]
        ELSE DecodeSegment(parts[2])

parse_jwt_payload(token) ==
    LET parts == Split(token, ".")
    IN  IF WrongSegmentCount(parts)
        THEN [some |-> FALSE, doc |-> JNull]
        ELSE DecodeSegment(parts[2])

----------------------------------------------------------------------------
(* extract_token_from_cookie, auth_handler.py lines 99-120 *)

CognitoCookie ==
    << "CognitoIdentityServiceProvider", ".", COGNITO_CLIENT_ID, ".",
       "LastAuthUser", ".", "idToken" >>

AmplifyCookie == << "amplify-signin-with-hostedui" >>

IdTokenCookie == << "id_token" >>

TokenKeysReversed == << IdTokenCookie, AmplifyCookie, CognitoCookie >>

TokenKeys == << CognitoCookie, AmplifyCookie, IdTokenCookie >>

\* the cookies dict: the entries of the header that hold "=", by position
CookieParts(cookie_header) == Split(cookie_header, ";")

IsPairAt(parts, i, key) ==
    /\ HasChar(parts[i], "=")
    /\ SplitOnce(Strip(parts[i]), "=")[1] = key

CookiesHas(parts, key) == \E i \in 1..Len(parts) : IsPairAt(parts, i, key)

\* a later assignment to the same key replaces an earlier one
CookiesGet(parts, key) ==
    LET i == CHOOSE j \in 1..Len(parts) :
                 /\ IsPairAt(parts, j, key)
                 /\ \A k \in (j + 1)..Len(parts) : ~IsPairAt(parts, k, key)
    IN  SplitOnce(Strip(parts[i]), "=")[2]

extract_token_from_cookie(cookie_header) ==
    LET parts == CookieParts(cookie_header)
        found == { n \in 1..Len(TokenKeys) : CookiesHas(parts, TokenKeys[n]) }
    IN  IF found = {}
        THEN NoText
        ELSE LET first == CHOOSE n \in found : \A m \in found : n <= m
             IN  SomeText(CookiesGet(parts, TokenKeys[first]))

----------------------------------------------------------------------------
(* urllib.parse.quote(text, safe="") and json.dumps({"target": text}) *)

\* A character beyond ASCII is written as one element: e with acute accent.
EAcute == "U+00E9"

Letters ==
    { "a", "b", "c", "d", "e", "f", "g", "h", "i", "j", "k", "l", "m",
      "n", "o", "p", "q", "r", "s", "t", "u", "v", "w", "x", "y", "z",
      "A", "B", "C", "D", "E", "F", "G", "H", "I", "J", "K", "L", "M",
      "N", "O", "P", "Q", "R", "S", "T", "U", "V", "W", "X", "Y", "Z" }

Digits == { "0", "1", "2", "3", "4", "5", "6", "7", "8", "9" }

\* what quote never escapes
Unreserved == Letters \cup Digits \cup { "_", ".", "-", "~" }

\* the escape of every other character of the model's alphabet: "%XX" for
\* each byte of its UTF-8 encoding, in upper-case hexadecimal
PercentEscape ==
    (" " :> << "%", "2", "0" >>) @@ ("\"" :> << "%", "2", "2" >>) @@
    ("%" :> << "%", "2", "5" >>) @@ ("&" :> << "%", "2", "6" >>) @@
    ("+" :> << "%", "2", "B" >>) @@ ("/" :> << "%", "2", "F" >>) @@
    (":" :> << "%", "3", "A" >>) @@ (";" :> << "%", "3", "B" >>) @@
    ("=" :> << "%", "3", "D" >>) @@ ("?" :> << "%", "3", "F" >>) @@
    ("@" :> << "%", "4", "0" >>) @@ ("\\" :> << "%", "5", "C" >>) @@
    ("{" :> << "%", "7", "B" >>) @@ ("}" :> << "%", "7", "D" >>) @@
    (EAcute :> << "%", "C", "3", "%", "A", "9" >>)

QuoteChar(c) == IF c \in Unreserved THEN << c >> ELSE PercentEscape[c]

Quote(text) == Concat([i \in 1..Len(text) |-> QuoteChar(text[i])])

\* json.dumps of a str, ensure_ascii: the quote and the backslash get a
\* backslash, a character beyond ASCII becomes \uXXXX
JsonEscapeCharNoBackslash(c) ==
    IF c = "\"" THEN << "\\", "\"" >>
    ELSE IF c = EAcute THEN << "\\", "u", "0", "0", "e", "9" >>
    ELSE << c >>

JsonEscapeChar(c) ==
    IF c = "\"" THEN << "\\", "\"" >>
    ELSE IF c = "\\" THEN << "\\", "\\" >>
    ELSE IF c = EAcute THEN << "\\", "u", "0", "0", "e", "9" >>
    ELSE << c >>

JsonString(text) ==
    << "\"" >> \o Concat([i \in 1..Len(text) |-> JsonEscapeChar(text[i])]) \o << "\"" >>

\* json.dumps({"target": original_uri})
JsonDumpsTarget(original_uri) ==
    << "{" >> \o JsonString(<< "t", "a", "r", "g", "e", "t" >>) \o << ":", " " >>
        \o JsonString(original_uri) \o << "}" >>

----------------------------------------------------------------------------
(* create_login_redirect, auth_handler.py lines 123-146 *)

HttpsScheme == << "h", "t", "t", "p", "s", ":", "/", "/" >>

HeaderEntry(key, value) == [key |-> key, value |-> value]

RedirectUriUnencoded(host) == HttpsScheme \o host \o << "/" >>

RedirectUriParam(host) == Quote(HttpsScheme \o host \o << "/" >>)

StateParam(original_uri) == Quote(JsonDumpsTarget(original_uri))

LoginUrl(original_uri, host) ==
    << "https://", COGNITO_DOMAIN, "/login", "?",
       "client_id", "=", COGNITO_CLIENT_ID, "&",
       "response_type", "=", "code", "&",
       "scope", "=", "email+openid+profile", "&",
       "redirect_uri", "=" >> \o RedirectUriParam(host)
        \o << "&", "state", "=" >> \o StateParam(original_uri)

create_login_redirect(original_uri, host) ==
    [ status |-> "302",
      statusDescription |-> "Found",
      headers |->
        ("location" :> << HeaderEntry("Location", LoginUrl(original_uri, host)) >>) @@
        ("cache-control" :>
            << HeaderEntry("Cache-Control",
                           << "no-cache, no-store, must-revalidate" >>) >>) ]

----------------------------------------------------------------------------
(* handler, auth_handler.py lines 149-217 *)

IndexHtml == << "/", "i", "n", "d", "e", "x", ".", "h", "t", "m", "l" >>

RootUri == << "/" >>

CodeParam == << "c", "o", "d", "e", "=" >>

\* How an evaluation ended: a value returned (kind "request": the request
\* object itself; kind "response": a generated response) or an exception
\* (raised).  request is the state of the caller's request object at that
\* point, caught the exception the top-level except clause swallowed ("" for
\* none), checks the decisions evaluated, in order.
Returned(kind, value, req, checks) ==
    [ raised |-> FALSE, exc |-> "", kind |-> kind, value |-> value,
      request |-> req, caught |-> "", checks |-> checks ]

Raised(exc, req, checks) ==
    [ raised |-> TRUE, exc |-> exc, kind |-> "none", value |-> EmptyDict,
      request |-> req, caught |-> "", checks |-> checks ]

\* event["Records"][0]["cf"]["request"]
RequestOf(ev) ==
    IF "Records" \notin DOMAIN ev
    THEN [raised |-> TRUE, exc |-> "KeyError", request |-> EmptyDict]
    ELSE IF Len(ev["Records"]) = 0
    THEN [raised |-> TRUE, exc |-> "IndexError", request |-> EmptyDict]
    ELSE IF "cf" \notin DOMAIN ev["Records"][1]
    THEN [raised |-> TRUE, exc |-> "KeyError", request |-> EmptyDict]
    ELSE IF "request" \notin DOMAIN ev["Records"][1]["cf"]
    THEN [raised |-> TRUE, exc |-> "KeyError", request |-> EmptyDict]
    ELSE [raised |-> FALSE, exc |-> "", request |-> ev["Records"][1]["cf"]["request"]]

\* headers.get("host", [{}])[0].get("value", "")
HostOf(headers) ==
    LET entries == IF "host" \in DOMAIN headers THEN headers["host"] ELSE << EmptyDict >>
    IN  IF Len(entries) = 0
        THEN [raised |-> TRUE, v |-> << >>]                        \* IndexError
        ELSE IF "value" \in DOMAIN entries[1]
        THEN [raised |-> FALSE, v |-> entries[1]["value"]]
        ELSE [raised |-> FALSE, v |-> << >>]

\* lines 183-184 and 190-191
RedirectToLogin(uri, headers, req, checks) ==
    LET host == HostOf(headers)
    IN  IF host.raised
        THEN Raised("IndexError", req, checks)
        ELSE Returned("response", create_login_redirect(uri, host.v), req, checks)

\* payload.get("email", "unknown"), as the text of a header value
UserEmail(doc) ==
    IF "email" \in DOMAIN doc.d THEN << doc.d["email"].s >> ELSE << "unknown" >>

\* lines 198-203: the two header assignments and the uri assignment
AnnotatedAlone(req, user_email) ==
    [ req EXCEPT
        !["headers"] =
            ("x-authenticated-user" :>
                << HeaderEntry("X-Authenticated-User", user_email) >>) @@
            ("x-lambda-edge" :>
                << HeaderEntry("X-Lambda-Edge", << "authenticated" >>) >>),
        !["uri"] = IndexHtml ]

Annotated(req, user_email) ==
    [ req EXCEPT
        !["headers"] =
            ("x-authenticated-user" :>
                << HeaderEntry("X-Authenticated-User", user_email) >>) @@
            ("x-lambda-edge" :>
                << HeaderEntry("X-Lambda-Edge", << "authenticated" >>) >>) @@
            req["headers"],
        !["uri"] = IndexHtml ]

\* lines 171-203
ProtectedBranch(req, uri, headers, t) ==
    LET checks == << "oauth_callback", "protected_route", "token" >>
    IN  IF "cookie" \in DOMAIN headers /\ Len(headers["cookie"]) = 0
        THEN Raised("IndexError", req, checks)
        ELSE IF "cookie" \in DOMAIN headers /\ "value" \notin DOMAIN headers["cookie"][1]
        THEN Raised("KeyError", req, checks)
        ELSE LET token == IF "cookie" \in DOMAIN headers
                          THEN extract_token_from_cookie(headers["cookie"][1]["value"])
                          ELSE NoText
             IN  IF ~token.some \/ token.v = << >>
                 THEN RedirectToLogin(uri, headers, req, checks)
                 ELSE LET payload == parse_jwt_payload(token.v)
                      IN  IF \/ ~payload.some
                             \/ ~DocTruthy(payload.doc)
                             \/ ~is_jwt_valid(payload.doc, t)
                          THEN RedirectToLogin(uri, headers, req, checks)
                          ELSE LET served == Annotated(req, UserEmail(payload.doc))
                               IN  Returned("request", served, served, checks)

\* "." not in uri.split("/")[-1]
LooksLikeRouteNoDotAnywhere(uri) == ~HasChar(uri, ".")

LooksLikeRouteFirstSegment(uri) == ~HasChar(Split(uri, "/")[1], ".")

LooksLikeRoute(uri) ==
    LET segments == Split(uri, "/")
    IN  ~HasChar(segments[Len(segments)], ".")

\* line 165: uri == "/" and "code=" in querystring
IsOAuthCallbackLeadingCode(uri, querystring) ==
    uri = RootUri /\ StartsWith(querystring, CodeParam)

IsOAuthCallback(uri, querystring) == uri = RootUri /\ Contains(querystring, CodeParam)

\* the body of the try, lines 156-213, for the request object req
handler_try(req, t) ==
    IF "uri" \notin DOMAIN req
    THEN Raised("KeyError", req, << >>)
    ELSE LET uri == req["uri"]
             headers == IF "headers" \in DOMAIN req THEN req["headers"] ELSE EmptyDict
             querystring ==
                 IF "querystring" \in DOMAIN req THEN req["querystring"] ELSE << >>
         IN  IF IsOAuthCallback(uri, querystring)
             THEN LET served == [req EXCEPT !["uri"] = IndexHtml]
                  IN  Returned("request", served, served, << "oauth_callback" >>)
             ELSE IF is_protected_route(uri)
             THEN ProtectedBranch(req, uri, headers, t)
             ELSE LET checks == << "oauth_callback", "protected_route", "spa_fallback" >>
                      served == IF uri # RootUri /\ LooksLikeRoute(uri)
                                THEN [req EXCEPT !["uri"] = IndexHtml]
                                ELSE req
                  IN  Returned("request", served, served, checks)

\* line 217, once line 156 has found the request: the request object as
\* it is when the exception is caught
ExceptReturnRewritten(req) == [req EXCEPT !["uri"] = IndexHtml]

ExceptReturn(req) == req

handler(ev, t) ==
    LET got == RequestOf(ev)
    IN  IF got.raised
        THEN Raised(got.exc, EmptyDict, << >>)   \* line 217 raises it again
        ELSE LET body == handler_try(got.request, t)
             IN  IF body.raised
                 THEN [ Returned("request", ExceptReturn(body.request),
                                 body.request, body.checks)
                        EXCEPT !.caught = body.exc ]
                 ELSE body

----------------------------------------------------------------------------
(* The requests the gate is run on: bounded sets of paths, query strings,  *)
(* cookies, headers and events                                             *)

MaxPieces == 3

MaxSpecial == 2

MaxCookies == 2

\* every text made of at most n of the pieces
RECURSIVE TextsOf(_, _)
TextsOf(pieces, n) ==
    IF n = 0
    THEN { << >> }
    ELSE LET shorter == TextsOf(pieces, n - 1)
         IN  shorter \cup { t \o p : t \in shorter, p \in pieces }

RoutePieces ==
    { << "/" >>, << "x" >>, << "." >>, << "/", "A", "d", "m", "i", "n" >>,
      << "p", "a", "n", "e", "l" >>, AdminRoute, DashboardRoute, ProfileRoute, ApiProtectedRoute, SettingsRoute }

RoutePaths == TextsOf(RoutePieces, MaxPieces)

\* a protected path followed by characters that quote or json.dumps escape,
\* or that spell an escape themselves: é, %22
SpecialPieces ==
    { << " " >>, << "\"" >>, << "\\" >>, << "&" >>, << "=" >>, << "%" >>,
      << EAcute >>, << "u", "0", "0", "e", "9" >>, << "2", "2" >>, << "/" >> }

SpecialPaths == { AdminRoute \o << "/" >> \o t : t \in TextsOf(SpecialPieces, MaxSpecial) }

SomePaths ==
    { << "/" >>, AdminRoute, AdminRoute \o << "/" >>,
      DashboardRoute \o << "/", "x", ".", "y" >>, << "/", "x" >>, << "/", "x", ".", "y" >>,
      << "/", "x", ".", "y", "/", "x" >> }

QueryStrings ==
    { NoText, SomeText(<< >>), SomeText(CodeParam \o << "a", "b", "c" >>),
      SomeText(<< "x", "=", "1", "&" >> \o CodeParam),
      SomeText(<< "c", "o", "d", "e" >>) }

Times == (TokenExp - Skew)..(TokenExp + Skew)

\* tokens: header.payload.signature
TokenOf(header, payload, signature) == header \o << "." >> \o payload \o << "." >> \o signature

JoseHeader == << "eyJhbGciOiJSUzI1NiJ9" >>

Signature == << "c2lnbmF0dXJl" >>

TokenFor(doc) == TokenOf(JoseHeader, << Base64Json(doc) >>, Signature)

GoodDoc ==
    JObject([exp |-> JInt(TokenExp), iss |-> JStr(ExpectedIssuer),
             aud |-> JStr(COGNITO_CLIENT_ID), token_use |-> JStr("id"),
             email |-> JStr("user@example.com")])

WrongAudienceDoc == JObject([GoodDoc.d EXCEPT !["aud"] = JStr("otherclientid")])

DocTokens == { TokenFor(doc) : doc \in JsonDocs }

OddTokens ==
    { << >>, JoseHeader, JoseHeader \o << "." >> \o << Base64Json(GoodDoc) >>,
      TokenFor(GoodDoc) \o << "." >> \o Signature,
      TokenOf(JoseHeader, << BadBase64 >>, Signature),
      TokenOf(JoseHeader, << NotJson >>, Signature),
      TokenOf(JoseHeader, << >>, Signature),
      TokenOf(<< >>, << Base64Json(GoodDoc) >>, << >>),
      TokenOf(Signature, << Base64Json(GoodDoc) >>, JoseHeader) }

\* cookie header texts
Cookie(name, value) == name \o << "=" >> \o value

CookieNames == { CognitoCookie, AmplifyCookie, IdTokenCookie, << "theme" >> }

FewTokens == { TokenFor(GoodDoc), TokenFor(WrongAudienceDoc) }

RECURSIVE CookieLists(_)
CookieLists(n) ==
    IF n = 0
    THEN { << >> }
    ELSE LET shorter == CookieLists(n - 1)
         IN  shorter \cup
             { IF t = << >> THEN Cookie(c, v) ELSE t \o << ";", " " >> \o Cookie(c, v) :
                 t \in shorter, c \in CookieNames, v \in FewTokens }

OddCookies ==
    { IdTokenCookie \o << " ", "=" >> \o TokenFor(GoodDoc),
      IdTokenCookie,
      << "theme", "=", "dark", ";" >> \o Cookie(IdTokenCookie, TokenFor(GoodDoc)) }

TokenCookies == { Cookie(IdTokenCookie, tok) : tok \in DocTokens \cup OddTokens }

\* header dicts
HostTexts ==
    { << "e", "x", "a", "m", "p", "l", "e", ".", "c", "o", "m" >>,
      << "l", "o", "c", "a", "l", "h", "o", "s", "t", ":", "8", "0", "8", "0" >> }

CookieHeader(texts) == "cookie" :> [i \in 1..Len(texts) |-> HeaderEntry("Cookie", texts[i])]

HostHeader(text) == "host" :> << HeaderEntry("Host", text) >>

ExampleHost == HostHeader(<< "e", "x", "a", "m", "p", "l", "e", ".", "c", "o", "m" >>)

\* headers a client can send along, among them the two the gate sets
ClientHeaders ==
    ("user-agent" :> << HeaderEntry("User-Agent", << "curl" >>) >>) @@
    ("x-authenticated-user" :>
        << HeaderEntry("X-Authenticated-User", << "root@example.com" >>) >>) @@
    ("x-lambda-edge" :> << HeaderEntry("X-Lambda-Edge", << "authenticated" >>) >>)

GoodCookie == CookieHeader(<< Cookie(IdTokenCookie, TokenFor(GoodDoc)) >>)

\* entries that lack what lines 177, 183 and 190 index
BrokenHeaders ==
    { "cookie" :> << >>,
      "cookie" :> << [key |-> "Cookie"] >>,
      ("cookie" :> << >>) @@ ExampleHost,
      "host" :> << >>,
      "host" :> << EmptyDict >>,
      "host" :> << [key |-> "Host"] >>,
      GoodCookie @@ ("host" :> << >>),
      CookieHeader(<< Cookie(IdTokenCookie, TokenFor(WrongAudienceDoc)) >>) @@ ("host" :> << >>),
      CookieHeader(<< Cookie(IdTokenCookie, TokenOf(JoseHeader, << NotJson >>, Signature)) >>)
          @@ ("host" :> << >>),
      CookieHeader(<< << "theme", "=", "dark" >>, Cookie(IdTokenCookie, TokenFor(GoodDoc)) >>)
          @@ ("host" :> << >>) }

\* a request dict: the uri, and when given the query string and the headers
Optional(key, opt) == IF opt.some THEN key :> opt.v ELSE EmptyDict

RequestWith(uri, querystring, headers) ==
    Optional("uri", uri) @@ Optional("querystring", querystring) @@
    Optional("headers", headers)

NoHeaders == [some |-> FALSE, v |-> EmptyDict]

SomeHeaders(h) == [some |-> TRUE, v |-> h]

EventOf(req) == [Records |-> << [cf |-> [request |-> req]] >>]

\* events without the request the first line of the try reads
BrokenEvents ==
    { EmptyDict, [Records |-> << >>], [Records |-> << EmptyDict >>],
      [Records |-> << [cf |-> EmptyDict] >>] }

\* 1. every claim set of a token, at each time around its expiry
TokenRequests ==
    { RequestWith(SomeText(uri), SomeText(<< >>), SomeHeaders(CookieHeader(<< c >>) @@ ExampleHost)) :
        uri \in { AdminRoute, << "/", "x" >> }, c \in TokenCookies }

\* 2. several cookies in one entry, and several cookie entries
CookieRequests ==
    { RequestWith(SomeText(AdminRoute), NoText, SomeHeaders(CookieHeader(cs) @@ ExampleHost)) :
        cs \in { << c >> : c \in CookieLists(MaxCookies) \cup OddCookies }
               \cup { << c, d >> : c, d \in CookieLists(1) } }

\* 3. every path, with and without a good token
PathRequests ==
    { RequestWith(SomeText(uri), q, h) :
        uri \in RoutePaths, q \in { NoText, SomeText(CodeParam \o << "a", "b", "c" >>) },
        h \in { NoHeaders, SomeHeaders(GoodCookie @@ ExampleHost) } }

\* 4. paths whose characters need escaping, and the hosts
RedirectRequests ==
    { RequestWith(SomeText(uri), NoText, h) :
        uri \in SpecialPaths,
        h \in { SomeHeaders(EmptyDict) } \cup { SomeHeaders(HostHeader(t)) : t \in HostTexts } }

\* 5. query strings, client headers, and requests and events that lack parts
ShapeRequests ==
    { RequestWith(uri, q, h) :
        uri \in { NoText } \cup { SomeText(p) : p \in SomePaths },
        q \in QueryStrings,
        h \in { NoHeaders, SomeHeaders(ClientHeaders @@ ExampleHost),
                SomeHeaders(ClientHeaders @@ GoodCookie @@ ExampleHost) }
              \cup { SomeHeaders(b) : b \in BrokenHeaders } }

Scenarios ==
    { [event |-> EventOf(r), now |-> t] : r \in TokenRequests, t \in Times }
    \cup { [event |-> EventOf(r), now |-> TokenExp - 1] :
            r \in CookieRequests \cup PathRequests \cup RedirectRequests \cup ShapeRequests }
    \cup { [event |-> e, now |-> TokenExp] : e \in BrokenEvents }

----------------------------------------------------------------------------
(* One evaluation of the gate *)

NotInvoked == [ raised |-> FALSE, exc |-> "", kind |-> "none", value |-> EmptyDict,
                caught |-> "", checks |-> << >> ]

Init ==
    /\ \E s \in Scenarios : event = s.event /\ now = s.now
    /\ request = RequestOf(event).request
    /\ result = NotInvoked
    /\ pc = "ready"
    /\ config = ModuleConfig
    /\ script = NoScript

\* the edge runtime calls handler(event, context)
Invoke ==
    /\ pc = "ready"
    /\ LET r == handler(event, now)
       IN  /\ result' = [ raised |-> r.raised, exc |-> r.exc, kind |-> r.kind,
                          value |-> r.value, caught |-> r.caught, checks |-> r.checks ]
           /\ request' = r.request
    /\ pc' = "done"
    /\ UNCHANGED << event, now, config, script >>

Next == Invoke

Spec == Init /\ [][Next]_vars

----------------------------------------------------------------------------
(* is_protected_route on its own: one classification of one path *)

RouteInit ==
    /\ \E p \in RoutePaths :
          /\ request = RequestWith(SomeText(p), NoText, NoHeaders)
          /\ event = EventOf(request)
    /\ now = TokenExp
    /\ result = [kind |-> "none", protected |-> FALSE]
    /\ pc = "ready"
    /\ config = ModuleConfig
    /\ script = NoScript

Classify ==
    /\ pc = "ready"
    /\ result' = [kind |-> "classified", protected |-> is_protected_route(request["uri"])]
    /\ pc' = "done"
    /\ UNCHANGED << event, now, request, config, script >>

RouteNext == Classify

RouteSpec == RouteInit /\ [][RouteNext]_vars

----------------------------------------------------------------------------
(* Several invocations of handler in one container: each has its own event *)
(* and request object and reads the clock itself; the module-level         *)
(* configuration is the only thing they have in common.  An invocation     *)
(* advances through the decisions of lines 165, 171 and 207, and the       *)
(* invocations interleave at these points.                                 *)

MaxInvocations == 2

Invocations == 1..MaxInvocations

FleetScenarios ==
    { [event |-> EventOf(RequestWith(SomeText(uri), q, h)), now |-> t] :
        uri \in { AdminRoute }, q \in { NoText },
        h \in { SomeHeaders(GoodCookie @@ ExampleHost) }, t \in { TokenExp, TokenExp + Skew } }
    \cup { [event |-> EventOf(RequestWith(SomeText(uri), NoText, SomeHeaders(ExampleHost))),
             now |-> TokenExp] :
            uri \in { AdminRoute, << "/", "x" >>, << "/", "x", ".", "y" >> } }
    \cup { [event |-> EventOf(RequestWith(SomeText(RootUri),
                                          SomeText(CodeParam \o << "a", "b", "c" >>),
                                          SomeHeaders(ExampleHost))),
             now |-> TokenExp],
           [event |-> EventOf(RequestWith(SomeText(AdminRoute), NoText,
                                          SomeHeaders("host" :> << >>))),
             now |-> TokenExp],
           [event |-> EmptyDict, now |-> TokenExp] }

\* One call of handler.  Its body reads the event, the clock and the
\* module configuration; earlier, the outcomes of the invocations that
\* have returned so far, is read nowhere: the function keeps nothing
\* between calls and has no module-level name it assigns.
handler_call_first_only(ev, t, earlier) ==
    IF earlier = {} \/ RequestOf(ev).raised
    THEN handler(ev, t)
    ELSE Returned("request", RequestOf(ev).request, RequestOf(ev).request, << >>)

handler_call_last_result(ev, t, earlier) ==
    IF earlier = {} THEN handler(ev, t) ELSE CHOOSE r \in earlier : TRUE

handler_call(ev, t, earlier) == handler(ev, t)

Outcome(r) ==
    [ raised |-> r.raised, exc |-> r.exc, kind |-> r.kind,
      value |-> r.value, caught |-> r.caught, checks |-> r.checks ]

\* what the invocations that have returned gave back
Earlier ==
    { [ raised |-> result[q].raised, exc |-> result[q].exc, kind |-> result[q].kind,
        value |-> result[q].value, request |-> request[q],
        caught |-> result[q].caught, checks |-> result[q].checks ] :
        q \in { i \in Invocations : pc[i] = "done" } }

FleetInit ==
    /\ \E sc \in [Invocations -> FleetScenarios] :
          /\ event = [p \in Invocations |-> sc[p].event]
          /\ now = [p \in Invocations |-> sc[p].now]
    /\ request = [p \in Invocations |-> RequestOf(event[p]).request]
    /\ result = [p \in Invocations |-> NotInvoked]
    /\ pc = [p \in Invocations |-> "ready"]
    /\ config = ModuleConfig
    /\ script = NoScript

\* the invocation returns (or raises): its outcome, and its request object
Finish(p, r) ==
    /\ result' = [result EXCEPT ![p] = Outcome(r)]
    /\ request' = [request EXCEPT ![p] = r.request]
    /\ pc' = [pc EXCEPT ![p] = "done"]

Continue(p, position) ==
    /\ pc' = [pc EXCEPT ![p] = position]
    /\ UNCHANGED << request, result >>

\* lines 156-168: read the request, decide the OAuth callback
CheckCallback(p) ==
    /\ pc[p] = "ready"
    /\ LET r == handler_call(event[p], now[p], Earlier)
       IN  IF Len(r.checks) <= 1
           THEN Finish(p, r)
           ELSE Continue(p, "callback_checked")
    /\ UNCHANGED << event, now, config, script >>

\* lines 171-203: decide the protected route, and the token on it
CheckRoute(p) ==
    /\ pc[p] = "callback_checked"
    /\ LET r == handler_call(event[p], now[p], Earlier)
       IN  IF Len(r.checks) <= 1 \/ r.checks[Len(r.checks)] = "token"
           THEN Finish(p, r)
           ELSE Continue(p, "route_checked")
    /\ UNCHANGED << event, now, config, script >>

\* lines 207-213: the SPA rewrite or the pass-through
Fallback(p) ==
    /\ pc[p] = "route_checked"
    /\ Finish(p, handler_call(event[p], now[p], Earlier))
    /\ UNCHANGED << event, now, config, script >>

FleetNext == \E p \in Invocations : CheckCallback(p) \/ CheckRoute(p) \/ Fallback(p)

FleetSpec == FleetInit /\ [][FleetNext]_vars

----------------------------------------------------------------------------
(* What the properties below read from a state *)

Done == pc = "done"

HasRequest == ~RequestOf(event).raised

\* the request as the caller handed it over
Received == RequestOf(event).request

HasUri == HasRequest /\ "uri" \in DOMAIN Received

ReceivedHeaders ==
    IF "headers" \in DOMAIN Received THEN Received["headers"] ELSE EmptyDict

ReceivedQuery ==
    IF "querystring" \in DOMAIN Received THEN Received["querystring"] ELSE << >>

\* the outcome variants
IsRedirect == result.kind = "response" /\ result.value["status"] = "302"

ReturnsRequest == result.kind = "request"

\* the request came back from the authenticated branch or a rewrite, not
\* from the except clause
Served == result.kind = "request" /\ result.caught = ""

\* a path the spec calls protected: a prefix, or a prefix continued by "/"
PrefixProtected(p) ==
    \E i \in 1..Len(PROTECTED_ROUTES) :
        p = PROTECTED_ROUTES[i] \/ StartsWith(p, PROTECTED_ROUTES[i] \o << "/" >>)

OnProtectedPath == HasUri /\ PrefixProtected(Received["uri"])

\* the four claim checks as the spec states them
IssuerOf(region, pool) == "https://cognito-idp." \o region \o ".amazonaws.com/" \o pool

FourChecksPass(doc, t) ==
    /\ doc.t = "dict"
    /\ "exp" \in DOMAIN doc.d /\ doc.d["exp"].t = "int" /\ doc.d["exp"].n > t
    /\ "iss" \in DOMAIN doc.d /\ doc.d["iss"] = JStr(IssuerOf(COGNITO_REGION, USER_POOL_ID))
    /\ "aud" \in DOMAIN doc.d /\ doc.d["aud"] = JStr(COGNITO_CLIENT_ID)
    /\ "token_use" \in DOMAIN doc.d /\ doc.d["token_use"] = JStr("id")

\* every text a cookie of a candidate name holds, in any cookie entry
CandidateTokens ==
    LET entries == IF "cookie" \in DOMAIN ReceivedHeaders
                   THEN ReceivedHeaders["cookie"] ELSE << >>
        TextAt(i) == IF "value" \in DOMAIN entries[i] THEN entries[i]["value"] ELSE << >>
    IN  UNION { { SplitOnce(Strip(Split(TextAt(i), ";")[j]), "=")[2] :
                    j \in { k \in 1..Len(Split(TextAt(i), ";")) :
                              /\ HasChar(Split(TextAt(i), ";")[k], "=")
                              /\ \E n \in 1..Len(TokenKeys) :
                                    SplitOnce(Strip(Split(TextAt(i), ";")[k]), "=")[1]
                                        = TokenKeys[n] } } :
                i \in 1..Len(entries) }

CarriesValidToken ==
    \E tok \in CandidateTokens :
        LET p == parse_jwt_payload(tok) IN p.some /\ FourChecksPass(p.doc, now)

\* the payload of the token the gate reads, when it decodes to a document
GateToken ==
    IF /\ "cookie" \in DOMAIN ReceivedHeaders
       /\ Len(ReceivedHeaders["cookie"]) > 0
       /\ "value" \in DOMAIN ReceivedHeaders["cookie"][1]
    THEN extract_token_from_cookie(ReceivedHeaders["cookie"][1]["value"])
    ELSE NoText

GatePayload ==
    IF GateToken.some THEN parse_jwt_payload(GateToken.v) ELSE [some |-> FALSE, doc |-> JNull]

PresentsObject == GatePayload.some /\ GatePayload.doc.t = "dict"

\* urllib.parse.unquote
RECURSIVE Unquote(_)
Unquote(text) ==
    IF text = << >>
    THEN << >>
    ELSE LET escaped == { c \in DOMAIN PercentEscape : StartsWith(text, PercentEscape[c]) }
         IN  IF escaped # {}
             THEN LET c == CHOOSE x \in escaped : TRUE
                  IN  << c >> \o Unquote(SubSeq(text, Len(PercentEscape[c]) + 1, Len(text)))
             ELSE << Head(text) >> \o Unquote(Tail(text))

\* the characters of a JSON string up to its closing quote, escapes undone
RECURSIVE JsonStringBody(_)
JsonStringBody(text) ==
    IF text = << >>
    THEN [ok |-> FALSE, v |-> << >>, rest |-> << >>]
    ELSE IF Head(text) = "\""
    THEN [ok |-> TRUE, v |-> << >>, rest |-> Tail(text)]
    ELSE LET escape == Head(text) = "\\"
             unicode == escape /\ StartsWith(Tail(text), << "u", "0", "0", "e", "9" >>)
             simple == escape /\ Len(text) >= 2 /\ text[2] \in { "\"", "\\" }
             used == IF unicode THEN 6 ELSE IF simple THEN 2 ELSE 1
             char == IF unicode THEN EAcute ELSE IF simple THEN text[2] ELSE Head(text)
             more == JsonStringBody(SubSeq(text, used + 1, Len(text)))
         IN  IF escape /\ ~unicode /\ ~simple
             THEN [ok |-> FALSE, v |-> << >>, rest |-> << >>]
             ELSE [more EXCEPT !.v = << char >> \o more.v]

\* json.loads of the text of {"target": <string>}: the string, if it parses
JsonLoadsTarget(text) ==
    LET opening == << "{", "\"", "t", "a", "r", "g", "e", "t", "\"", ":", " ", "\"" >>
        body == JsonStringBody(SubSeq(text, Len(opening) + 1, Len(text)))
    IN  IF StartsWith(text, opening) /\ body.ok /\ body.rest = << "}" >>
        THEN SomeText(body.v)
        ELSE NoText

\* the query parameters of a URL: name=value pairs after the "?"
QueryPairs(url) == Split(SubSeq(url, IndexOf(url, "?") + 1, Len(url)), "&")

QueryNames(url) ==
    LET pairs == QueryPairs(url) IN [i \in 1..Len(pairs) |-> SplitOnce(pairs[i], "=")[1]]

QueryValue(url, name) ==
    LET pairs == QueryPairs(url)
        i == CHOOSE j \in 1..Len(pairs) : SplitOnce(pairs[j], "=")[1] = << name >>
    IN  SplitOnce(pairs[i], "=")[2]

Location == result.value["headers"]["location"][1]["value"]

\* the target the state parameter of the redirect decodes to
StateTarget == JsonLoadsTarget(Unquote(QueryValue(Location, "state")))

----------------------------------------------------------------------------
(* Properties *)

\* C1: a request to a protected path (a configured prefix, or the prefix
\* continued by "/") that carries no token passing the four claim checks is
\* answered by a 302 login redirect whose state parameter decodes to
\* {"target": path as received}; the request is never returned.
C1_ProtectedWithoutTokenRedirects ==
    (Done /\ OnProtectedPath /\ ~CarriesValidToken)
        => (IsRedirect /\ StateTarget = SomeText(Received["uri"]))

\* C2: handler never raises to its caller, whatever the event lacks.
C2_HandlerNeverRaises == Done => ~result.raised

\* C3: when the except clause of handler catches a fault, the value
\* returned is the request exactly as it was received, uri and headers.
C3_FaultReturnsOriginalRequest ==
    (Done /\ result.caught # "")
        => (result.kind = "request" /\ result.value = Received /\ request = Received)

C3_Witness ==
    /\ Done /\ result.caught = "IndexError" /\ OnProtectedPath
    /\ "cookie" \in DOMAIN ReceivedHeaders
    /\ ReceivedHeaders["cookie"] = << >>
    /\ result.value = Received

\* C4: on a protected path a token is accepted only when exp (present,
\* later than now), iss, aud and token_use all pass; a payload failing any
\* one of them ends in the login redirect.
C4_AcceptedOnlyWhenAllFourPass ==
    (Done /\ OnProtectedPath /\ PresentsObject)
        => /\ Served => FourChecksPass(GatePayload.doc, now)
           /\ ~FourChecksPass(GatePayload.doc, now) => IsRedirect

\* C5: a token whose exp is less than or equal to now is never accepted.
C5_ExpiryIsStrict ==
    (/\ Done /\ OnProtectedPath /\ PresentsObject
     /\ "exp" \in DOMAIN GatePayload.doc.d
     /\ GatePayload.doc.d["exp"].t = "int"
     /\ GatePayload.doc.d["exp"].n <= now)
        => ~Served

\* C6: is_protected_route(p) holds exactly when p, one trailing slash
\* removed, is a configured prefix or starts with prefix + "/".
OneSlashRemoved(p) ==
    IF Len(p) > 0 /\ p[Len(p)] = "/" THEN SubSeq(p, 1, Len(p) - 1) ELSE p

C6_ProtectedIffPrefixMatch ==
    Done => (result.protected <=> PrefixProtected(OneSlashRemoved(request["uri"])))

C6_Witness ==
    /\ Done
    /\ request["uri"] = AdminRoute \o << "/", "/" >>
    /\ result.protected

\* C7: a request for "/" whose query string holds "code=" comes back
\* rewritten to /index.html, whatever its headers, and nothing but the
\* callback check was evaluated.
C7_OAuthCallbackRewrites ==
    (Done /\ HasUri /\ Received["uri"] = RootUri /\ Contains(ReceivedQuery, CodeParam))
        => /\ Served
           /\ result.value = [Received EXCEPT !["uri"] = IndexHtml]
           /\ result.checks = << "oauth_callback" >>

C7_Witness ==
    /\ Done /\ HasUri /\ Received["uri"] = RootUri
    /\ ReceivedQuery = << "x", "=", "1", "&" >> \o CodeParam
    /\ "cookie" \in DOMAIN ReceivedHeaders
    /\ result.value["uri"] = IndexHtml

\* C8 as stated: with a token passing the four checks on a protected path,
\* the request comes back with uri /index.html, x-authenticated-user set to
\* the token's email claim, x-lambda-edge set to "authenticated", and every
\* other header as received.
HeadersSet(email) ==
    /\ DOMAIN result.value["headers"]
         = DOMAIN ReceivedHeaders \cup { "x-authenticated-user", "x-lambda-edge" }
    /\ result.value["headers"]["x-authenticated-user"]
         = << [key |-> "X-Authenticated-User", value |-> email] >>
    /\ result.value["headers"]["x-lambda-edge"]
         = << [key |-> "X-Lambda-Edge", value |-> << "authenticated" >>] >>
    /\ \A h \in DOMAIN ReceivedHeaders \ { "x-authenticated-user", "x-lambda-edge" } :
          result.value["headers"][h] = ReceivedHeaders[h]

ValidTokenOnProtectedPath ==
    Done /\ OnProtectedPath /\ GatePayload.some /\ FourChecksPass(GatePayload.doc, now)

C8_AnnotatedWithEmailClaim ==
    ValidTokenOnProtectedPath
        => /\ Served
           /\ result.value["uri"] = IndexHtml
           /\ DOMAIN result.value = DOMAIN Received
           /\ "email" \in DOMAIN GatePayload.doc.d
           /\ HeadersSet(<< GatePayload.doc.d["email"].s >>)

\* C8 amended: ... x-authenticated-user is set to the token's email claim,
\* or to "unknown" when the token has no email claim.
C8_AnnotatedWithEmailOrUnknown ==
    ValidTokenOnProtectedPath
        => /\ Served
           /\ result.value["uri"] = IndexHtml
           /\ DOMAIN result.value = DOMAIN Received
           /\ \A k \in DOMAIN Received \ { "uri", "headers" } : result.value[k] = Received[k]
           /\ HeadersSet(IF "email" \in DOMAIN GatePayload.doc.d
                         THEN << GatePayload.doc.d["email"].s >>
                         ELSE << "unknown" >>)

C8_Witness ==
    /\ ValidTokenOnProtectedPath
    /\ "email" \notin DOMAIN GatePayload.doc.d
    /\ result.value["headers"]["x-authenticated-user"][1]["value"] = << "unknown" >>
    /\ "host" \in DOMAIN result.value["headers"]

\* C9: every login redirect is a 302 "Found" to https://<login domain>/login
\* with client_id, response_type=code, scope=email+openid+profile, redirect_uri
\* = the URL-encoded https://<host>/ of the host header, and state, and
\* carries Cache-Control: no-cache, no-store, must-revalidate.
HostText ==
    IF /\ "host" \in DOMAIN ReceivedHeaders
       /\ Len(ReceivedHeaders["host"]) > 0
       /\ "value" \in DOMAIN ReceivedHeaders["host"][1]
    THEN ReceivedHeaders["host"][1]["value"]
    ELSE << >>

UrlEncoded(text) == \A i \in 1..Len(text) : text[i] \in Unreserved \cup { "%" }

C9_RedirectShape ==
    (Done /\ result.kind = "response")
        => /\ result.value["status"] = "302"
           /\ result.value["statusDescription"] = "Found"
           /\ DOMAIN result.value["headers"] = { "location", "cache-control" }
           /\ result.value["headers"]["cache-control"]
                = << [key |-> "Cache-Control",
                      value |-> << "no-cache, no-store, must-revalidate" >>] >>
           /\ Len(result.value["headers"]["location"]) = 1
           /\ result.value["headers"]["location"][1]["key"] = "Location"
           /\ SubSeq(Location, 1, IndexOf(Location, "?"))
                = << "https://", COGNITO_DOMAIN, "/login", "?" >>
           /\ QueryNames(Location)
                = << << "client_id" >>, << "response_type" >>, << "scope" >>,
                     << "redirect_uri" >>, << "state" >> >>
           /\ QueryValue(Location, "client_id") = << COGNITO_CLIENT_ID >>
           /\ QueryValue(Location, "response_type") = << "code" >>
           /\ QueryValue(Location, "scope") = << "email+openid+profile" >>
           /\ UrlEncoded(QueryValue(Location, "redirect_uri"))
           /\ Unquote(QueryValue(Location, "redirect_uri"))
                = << "h", "t", "t", "p", "s", ":", "/", "/" >> \o HostText \o << "/" >>

C9_Witness ==
    /\ Done /\ IsRedirect
    /\ HostText = << "l", "o", "c", "a", "l", "h", "o", "s", "t", ":", "8", "0", "8", "0" >>
    /\ HasChar(QueryValue(Location, "redirect_uri"), "%")

\* C10: for every login redirect, the state parameter of Location,
\* URL-decoded and parsed as JSON, is {"target": path as received}.
C10_StateRoundTrip ==
    (Done /\ result.kind = "response")
        => /\ UrlEncoded(QueryValue(Location, "state"))
           /\ StateTarget = SomeText(Received["uri"])

C10_Witness ==
    /\ Done /\ IsRedirect
    /\ Received["uri"] = AdminRoute \o << "/", "\\", "u", "0", "0", "e", "9" >>
    /\ StateTarget = SomeText(Received["uri"])

\* C11: on a protected path a token that does not parse (not three
\* segments, a payload that is not base64, or not JSON) gets the login
\* redirect a request for the same path and host without any cookie gets,
\* and handler raises nothing.
WithoutCookie(req) ==
    [ req EXCEPT !["headers"] = [h \in DOMAIN req["headers"] \ { "cookie" } |-> req["headers"][h]] ]

MalformedToken ==
    /\ GateToken.some /\ GateToken.v # << >>
    /\ ~GatePayload.some

C11_MalformedTokenLikeAbsent ==
    (Done /\ OnProtectedPath /\ MalformedToken)
        => /\ ~result.raised
           /\ IsRedirect
           /\ result.value = handler(EventOf(WithoutCookie(Received)), now).value
           /\ result.value = create_login_redirect(Received["uri"], HostText)

\* C12: handler leaves the request object it was given as it was: after
\* the invocation the caller's request has the uri and the headers it had
\* before.
C12_RequestNotMutated ==
    (Done /\ HasRequest) => request = Received

\* C13: a protected path whose final segment holds a dot never reaches the
\* asset / SPA decision and is never handed back as it came; without a
\* valid token it is redirected to login.
FinalSegment(p) == Split(p, "/")[Len(Split(p, "/"))]

DottedFinalSegment(p) == HasChar(FinalSegment(p), ".")

C13_ProtectedBeforeAsset ==
    (Done /\ OnProtectedPath /\ DottedFinalSegment(Received["uri"]))
        => /\ \A i \in 1..Len(result.checks) : result.checks[i] # "spa_fallback"
           /\ ~(ReturnsRequest /\ result.value = Received)
           /\ ~CarriesValidToken => IsRedirect

\* C14: a request that is not the OAuth callback, whose path is not
\* protected, is not "/" and has no dot in its final segment, comes back
\* rewritten to /index.html, everything else as received.
C14_RouteLikeIsRewritten ==
    (/\ Done /\ HasUri
     /\ ~(Received["uri"] = RootUri /\ Contains(ReceivedQuery, CodeParam))
     /\ ~PrefixProtected(Received["uri"])
     /\ Received["uri"] # RootUri
     /\ ~DottedFinalSegment(Received["uri"]))
        => /\ Served
           /\ result.value = [Received EXCEPT !["uri"] = IndexHtml]

C14_Witness ==
    /\ Done /\ HasUri
    /\ Received["uri"] = << "/", "x", ".", "y", "/", "x" >>
    /\ "user-agent" \in DOMAIN ReceivedHeaders
    /\ result.value["uri"] = IndexHtml
    /\ result.value["headers"] = ReceivedHeaders

\* C15: "/" without "code=" in the query string, and every unprotected
\* path whose final segment holds a dot, come back unchanged: the uri and
\* the headers of the request as received.
C15_RootAndAssetsPassThrough ==
    (/\ Done /\ HasUri
     /\ \/ Received["uri"] = RootUri /\ ~Contains(ReceivedQuery, CodeParam)
        \/ ~PrefixProtected(Received["uri"]) /\ DottedFinalSegment(Received["uri"]))
        => /\ Served
           /\ result.value = Received
           /\ request = Received

C15_Witness ==
    /\ Done /\ HasUri
    /\ Received["uri"] = << "/", "x", ".", "y" >>
    /\ "cookie" \in DOMAIN ReceivedHeaders
    /\ ReceivedQuery = << "c", "o", "d", "e" >>
    /\ result.value = Received

\* C16: every invocation of handler ends, in one step, in exactly one of
\* three outcomes: the 302 login redirect, the request with its uri set to
\* /index.html (Rewrite), or the request with the uri it came with
\* (PassThrough).
IsRewrite ==
    /\ ReturnsRequest /\ "uri" \in DOMAIN result.value
    /\ result.value["uri"] = IndexHtml
    /\ ~(HasUri /\ Received["uri"] = IndexHtml)

IsPassThrough ==
    /\ ReturnsRequest /\ HasRequest
    /\ DOMAIN result.value = DOMAIN Received
    /\ "uri" \in DOMAIN Received => result.value["uri"] = Received["uri"]

C16_OneOfThreeOutcomes ==
    Done => /\ ~result.raised
            /\ IsRedirect \/ IsRewrite \/ IsPassThrough
            /\ ~(IsRedirect /\ IsRewrite) /\ ~(IsRedirect /\ IsPassThrough)
            /\ ~(IsRewrite /\ IsPassThrough)

\* C17: the token is the value of the first cookie name present in the
\* order CognitoIdentityServiceProvider.<client id>.LastAuthUser.idToken,
\* amplify-signin-with-hostedui, id_token; that value alone decides: the
\* request is served exactly when it passes validation, whatever a cookie
\* of a later name holds.
FirstCookieText ==
    IF /\ "cookie" \in DOMAIN ReceivedHeaders
       /\ Len(ReceivedHeaders["cookie"]) > 0
       /\ "value" \in DOMAIN ReceivedHeaders["cookie"][1]
    THEN SomeText(ReceivedHeaders["cookie"][1]["value"])
    ELSE NoText

HasCookieNamed(name) ==
    FirstCookieText.some /\ CookiesHas(Split(FirstCookieText.v, ";"), name)

CookieNamed(name) == CookiesGet(Split(FirstCookieText.v, ";"), name)

TokenByPriority ==
    IF HasCookieNamed(CognitoCookie) THEN SomeText(CookieNamed(CognitoCookie))
    ELSE IF HasCookieNamed(AmplifyCookie) THEN SomeText(CookieNamed(AmplifyCookie))
    ELSE IF HasCookieNamed(IdTokenCookie) THEN SomeText(CookieNamed(IdTokenCookie))
    ELSE NoText

PassesValidation(token) ==
    LET p == parse_jwt_payload(token)
    IN  p.some /\ DocTruthy(p.doc) /\ is_jwt_valid(p.doc, now)

C17_FirstCandidateNameDecides ==
    (Done /\ OnProtectedPath /\ TokenByPriority.some)
        => (Served <=> PassesValidation(TokenByPriority.v))

C17_Witness ==
    /\ Done /\ OnProtectedPath
    /\ HasCookieNamed(CognitoCookie) /\ HasCookieNamed(IdTokenCookie)
    /\ ~PassesValidation(CookieNamed(CognitoCookie))
    /\ PassesValidation(CookieNamed(IdTokenCookie))
    /\ IsRedirect

\* C18: of several cookie header entries only the first is scanned: a
\* protected request whose only valid token stands in a later entry is not
\* authenticated and is redirected to login.
CookieEntries ==
    IF "cookie" \in DOMAIN ReceivedHeaders THEN ReceivedHeaders["cookie"] ELSE << >>

ValidTokenIn(text) ==
    LET parts == Split(text, ";")
    IN  \E j \in 1..Len(parts), n \in 1..3 :
            /\ IsPairAt(parts, j, << CognitoCookie, AmplifyCookie, IdTokenCookie >>[n])
            /\ LET p == parse_jwt_payload(SplitOnce(Strip(parts[j]), "=")[2])
               IN  p.some /\ FourChecksPass(p.doc, now)

ValidTokenOnlyInLaterEntry ==
    /\ Len(CookieEntries) >= 2
    /\ \A i \in 1..Len(CookieEntries) : "value" \in DOMAIN CookieEntries[i]
    /\ ~ValidTokenIn(CookieEntries[1]["value"])
    /\ \E i \in 2..Len(CookieEntries) : ValidTokenIn(CookieEntries[i]["value"])

C18_OnlyFirstCookieEntryScanned ==
    (Done /\ OnProtectedPath /\ ValidTokenOnlyInLaterEntry)
        => (~Served /\ IsRedirect)

\* C19: two invocations of handler on events of identical contents, at
\* the same current time and under the same configuration, give identical
\* outputs, in whatever order they and other invocations run.
SameInput(p, q) == event[p] = event[q] /\ now[p] = now[q]

----------------------------------------------------------------------------
(* scripts/generate_aws_exports.py: aws-exports.js from the stack outputs  *)

MaxRuns == 2

\* CloudFront domains and Cognito identifiers, as words
CurrentDomain == << "d3nteozhns257o", ".cloudfront.net" >>

StaleDomain == << "old-domain", ".cloudfront.net" >>

LocalUrl == << "http://", "localhost:5173", "/" >>

HttpsUrl(domain) == << "https://" >> \o domain \o << "/" >>

\* a text that stands for "no such key" in a dict of texts
NoValue == << "None" >>

OutputOf(outputs, key) == IF key \in DOMAIN outputs THEN outputs[key] ELSE NoValue

\* generate_aws_exports_content, lines 74-94: the values handed to the
\* template, which the file then holds
generate_aws_exports_content(auth_outputs, static_outputs) ==
    LET cloudfront_domain ==
            IF "DistributionDomainName" \in DOMAIN static_outputs
            THEN static_outputs["DistributionDomainName"] ELSE << >>
    IN  [ userPoolId |-> auth_outputs["UserPoolId"],
          userPoolClientId |-> auth_outputs["UserPoolClientId"],
          redirectSignIn |->
              IF cloudfront_domain # << >>
              THEN << LocalUrl, HttpsUrl(cloudfront_domain) >>
              ELSE << LocalUrl >> ]

NoFile == [exists |-> FALSE, content |-> EmptyDict]

FileOf(content) == [exists |-> TRUE, content |-> content]

\* read_existing_config, lines 97-131
read_existing_config(file) ==
    IF ~file.exists
    THEN EmptyDict
    ELSE LET urls == file.content["redirectSignIn"]
             cf == { i \in 1..Len(urls) :
                       urls[i][1] = "https://" /\ HasChar(urls[i], ".cloudfront.net") }
         IN  ("userPoolId" :> file.content["userPoolId"]) @@
             ("userPoolClientId" :> file.content["userPoolClientId"]) @@
             (IF cf = {}
              THEN EmptyDict
              ELSE "cloudfrontDomain" :>
                       SubSeq(urls[CHOOSE i \in cf : \A j \in cf : i <= j], 2, 3))

\* check_config_drift, lines 134-161
check_config_drift(existing_config, auth_outputs, static_outputs) ==
    \/ OutputOf(existing_config, "userPoolId") # OutputOf(auth_outputs, "UserPoolId")
    \/ OutputOf(existing_config, "userPoolClientId")
         # OutputOf(auth_outputs, "UserPoolClientId")
    \/ (IF "cloudfrontDomain" \in DOMAIN existing_config
        THEN existing_config["cloudfrontDomain"] ELSE << >>)
         # (IF "DistributionDomainName" \in DOMAIN static_outputs
            THEN static_outputs["DistributionDomainName"] ELSE << >>)

RequiredAuthOutputs == { "UserPoolId", "UserPoolClientId", "IdentityPoolId", "UserPoolDomainName" }

\* generate_aws_exports(verbose=True), lines 164-232: whether it succeeded
\* and the file it leaves; writable says whether write_text succeeds
generate_aws_exports(file, auth_outputs, static_outputs, writable) ==
    IF DOMAIN auth_outputs = {} \/ DOMAIN static_outputs = {}
    THEN [success |-> FALSE, file |-> file]
    ELSE IF RequiredAuthOutputs \ DOMAIN auth_outputs # {}
    THEN [success |-> FALSE, file |-> file]
    ELSE IF writable
    THEN [success |-> TRUE,
          file |-> FileOf(generate_aws_exports_content(auth_outputs, static_outputs))]
    ELSE [success |-> FALSE, file |-> file]

\* main, lines 235-256: the exit code
ExitCode(success, drifted) == IF success THEN 0 ELSE 1

AuthOutputs(pool, client) ==
    [ UserPoolId |-> << pool >>, UserPoolClientId |-> << client >>,
      IdentityPoolId |-> << "identity-1" >>, UserPoolDomainName |-> << "sflt-auth" >> ]

AuthOutputChoices ==
    { EmptyDict, AuthOutputs("pool-1", "client-1"), AuthOutputs("pool-2", "client-1"),
      [ UserPoolId |-> << "pool-1" >>, UserPoolClientId |-> << "client-1" >> ] }

StaticOutputChoices ==
    { EmptyDict, [DistributionDomainName |-> CurrentDomain],
      [DistributionId |-> << "E123" >>] }

ExportsFileChoices ==
    { NoFile }
    \cup { FileOf(generate_aws_exports_content(AuthOutputs("pool-1", "client-1"), st)) :
             st \in { [DistributionDomainName |-> CurrentDomain],
                      [DistributionDomainName |-> StaleDomain],
                      [DistributionId |-> << "E123" >>] } }

ExportsInit ==
    /\ \E f \in ExportsFileChoices, a \in AuthOutputChoices, st \in StaticOutputChoices :
          script = [ name |-> "generate_aws_exports", file |-> f, auth |-> a, static |-> st,
                     before |-> f, drifted |-> FALSE, written |-> FALSE,
                     exited |-> FALSE, exit |-> 0, runs |-> 0 ]
    /\ event = EmptyDict /\ now = 0 /\ request = EmptyDict
    /\ result = NotInvoked /\ pc = "ready" /\ config = ModuleConfig

\* `uv run scripts/generate_aws_exports.py`: one run of main
RunGenerator ==
    /\ script.runs < MaxRuns
    /\ \E writable \in BOOLEAN :
          LET existing == read_existing_config(script.file)
              drifted == /\ DOMAIN existing # {}
                         /\ check_config_drift(existing, script.auth, script.static)
              done == generate_aws_exports(script.file, script.auth, script.static, writable)
          IN  script' = [ script EXCEPT !.before = script.file,
                                        !.file = done.file,
                                        !.drifted = drifted,
                                        !.written = writable,
                                        !.exited = TRUE,
                                        !.exit = ExitCode(done.success, drifted),
                                        !.runs = @ + 1 ]
    /\ UNCHANGED gateVars

\* test_convergence.py line 51: the CloudFront domain of the file replaced
CorruptDomain ==
    /\ script.file.exists
    /\ script.exited
    /\ script.runs < MaxRuns
    /\ LET urls == script.file.content["redirectSignIn"]
       IN  /\ \E i \in 1..Len(urls) : urls[i] = HttpsUrl(CurrentDomain)
           /\ script' = [ script EXCEPT
                  !.file.content["redirectSignIn"] =
                      [i \in 1..Len(urls) |->
                          IF urls[i] = HttpsUrl(CurrentDomain)
                          THEN HttpsUrl(StaleDomain) ELSE urls[i]],
                  !.exited = FALSE ]
    /\ UNCHANGED gateVars

ExportsNext == RunGenerator \/ CorruptDomain

ExportsSpec == ExportsInit /\ [][ExportsNext]_vars

\* C21: a run of the generator that finds the existing aws-exports.js
\* drifted from the stack outputs exits with 2 and leaves the file holding
\* the current values; a run that finds no drift exits with 0.
GeneratorRan ==
    /\ script.exited /\ script.written
    /\ script.before.exists
    /\ DOMAIN script.static # {}
    /\ RequiredAuthOutputs \subseteq DOMAIN script.auth

C21_DriftExitsTwo ==
    GeneratorRan
        => /\ script.drifted =>
                 /\ script.exit = 2
                 /\ script.file = FileOf(generate_aws_exports_content(script.auth, script.static))
           /\ ~script.drifted => script.exit = 0

----------------------------------------------------------------------------
(* scripts/orchestration_utils.py: deploy_with_retry, lines 320-372        *)

MaxRetries == 3

\* str.lower, on ASCII letters
UpperLetters ==
    << "A", "B", "C", "D", "E", "F", "G", "H", "I", "J", "K", "L", "M", 
       "N", "O", "P", "Q", "R", "S", "T", "U", "V", "W", "X", "Y", "Z" >>

LowerLetters ==
    << "a", "b", "c", "d", "e", "f", "g", "h", "i", "j", "k", "l", "m", 
       "n", "o", "p", "q", "r", "s", "t", "u", "v", "w", "x", "y", "z" >>

LowerChar(c) ==
    IF \E i \in 1..Len(UpperLetters) : UpperLetters[i] = c
    THEN LowerLetters[CHOOSE i \in 1..Len(UpperLetters) : UpperLetters[i] = c]
    ELSE c

Lower(s) == [i \in 1..Len(s) |-> LowerChar(s[i])]

\* line 348
retryable_errors ==
    << << "r", "a", "t", "e", " ", "e", "x", "c", "e", "e", "d", "e", "d" >>,
       << "t", "h", "r", "o", "t", "t", "l", "i", "n", "g" >>,
       << "t", "i", "m", "e", "o", "u", "t" >>,
       << "c", "o", "n", "n", "e", "c", "t", "i", "o", "n", " ", "r", "e", "s", "e", "t" >> >>

\* what a deployment command can write to stderr
RateExceededText == << "R", "a", "t", "e", " ", "e", "x", "c", "e", "e", "d", "e", "d" >>

ThrottlingText == << "T", "h", "r", "o", "t", "t", "l", "i", "n", "g", "E", "x", "c", "e", "p", "t", "i", "o", "n" >>

ConnectionResetText == << "C", "o", "n", "n", "e", "c", "t", "i", "o", "n", " ", "r", "e", "s", "e", "t", " ", "b", "y", " ", "p", "e", "e", "r" >>

ReadTimeoutText == << "R", "e", "a", "d", " ", "t", "i", "m", "e", "o", "u", "t" >>

AccessDeniedText == << "A", "c", "c", "e", "s", "s", "D", "e", "n", "i", "e", "d" >>

StderrTexts ==
    { RateExceededText, ThrottlingText, ConnectionResetText, ReadTimeoutText,
      AccessDeniedText, << >> }


\* What one run of the command does: it completes with a return code and
\* a stderr text, or run_command raises (subprocess.TimeoutExpired after
\* `timeout` seconds, FileNotFoundError, ...)
Completed(returncode, stderr) ==
    [kind |-> "completed", returncode |-> returncode, stderr |-> stderr, exc |-> ""]

RunRaises(exc) == [kind |-> "exception", returncode |-> 0, stderr |-> << >>, exc |-> exc]

CommandOutcomes ==
    { Completed(0, << >>) }
    \cup { Completed(1, text) : text \in StderrTexts }
    \cup { RunRaises("TimeoutExpired"), RunRaises("FileNotFoundError") }

\* run_command, lines 78-82: with show_output the streams are not
\* captured and result.stderr is None
run_command(outcome, show_output) ==
    [ returncode |-> outcome.returncode,
      captured |-> ~show_output,
      stderr |-> IF show_output THEN << >> ELSE outcome.stderr ]

\* line 347
ErrorOutput(res) == IF res.captured /\ res.stderr # << >> THEN res.stderr ELSE << >>

\* line 350
IsRetryableAlways(error_output) == TRUE

IsRetryable(error_output) ==
    \E i \in 1..Len(retryable_errors) : Contains(Lower(error_output), retryable_errors[i])

\* line 353
WaitTime(attempt) == (attempt + 1) * 10

\* log_deployment_event, lines 169-193: the event appended to the log
LogEvent(log, event_type, attempt) ==
    Append(log, [event_type |-> event_type, attempt |-> attempt])

NotReturned == [kind |-> "pending", returncode |-> 0]

\* what deploy_with_retry gives its caller: a CompletedProcess, None, or
\* the exception it lets through
ReturnResult(res) == [kind |-> "CompletedProcess", returncode |-> res.returncode]

ReturnNone == [kind |-> "None", returncode |-> 0]

Reraise == [kind |-> "raise", returncode |-> 0]

RetryInit ==
    /\ \E m \in 0..MaxRetries, so \in BOOLEAN :
          script = [ name |-> "deploy_with_retry", max_retries |-> m, show_output |-> so,
                     attempt |-> 0, log |-> << >>, attempts |-> << >>,
                     returned |-> NotReturned, pc |-> "loop" ]
    /\ event = EmptyDict /\ now = 0 /\ request = EmptyDict
    /\ result = NotInvoked /\ pc = "ready" /\ config = ModuleConfig

\* one iteration of the for loop, lines 334-370; attempts keeps, for each
\* iteration, what the command did, where the log stood when it started
\* and the seconds slept after it
Attempt ==
    /\ script.pc = "loop"
    /\ script.attempt < script.max_retries
    /\ \E outcome \in CommandOutcomes :
          LET attempt == script.attempt
              last == ~(attempt < script.max_retries - 1)
              log1 == LogEvent(script.log, "deploy_attempt", attempt + 1)
              res == run_command(outcome, script.show_output)
              retry == IsRetryable(ErrorOutput(res)) /\ ~last
              ran(slept) == Append(script.attempts,
                                   [outcome |-> outcome, logged |-> Len(log1), slept |-> slept])
          IN  IF outcome.kind = "exception"
              THEN script' = [ script EXCEPT
                      !.log = log1, !.attempts = ran(0),
                      !.attempt = IF last THEN @ ELSE @ + 1,
                      !.returned = IF last THEN Reraise ELSE @,
                      !.pc = IF last THEN "done" ELSE @ ]
              ELSE IF res.returncode = 0
              THEN script' = [ script EXCEPT
                      !.log = LogEvent(log1, "deploy_success", attempt + 1),
                      !.attempts = ran(0),
                      !.returned = ReturnResult(res), !.pc = "done" ]
              ELSE IF retry
              THEN script' = [ script EXCEPT
                      !.log = log1, !.attempts = ran(WaitTime(attempt)),
                      !.attempt = @ + 1 ]
              ELSE script' = [ script EXCEPT
                      !.log = LogEvent(log1, "deploy_failure", attempt + 1),
                      !.attempts = ran(0),
                      !.returned = ReturnResult(res), !.pc = "done" ]
    /\ UNCHANGED gateVars

\* line 372: the loop ran out
LoopExhausted ==
    /\ script.pc = "loop"
    /\ ~(script.attempt < script.max_retries)
    /\ script' = [script EXCEPT !.returned = ReturnNone, !.pc = "done"]
    /\ UNCHANGED gateVars

RetryNext == Attempt \/ LoopExhausted

RetrySpec == RetryInit /\ [][RetryNext]_vars

\* C22: deploy_with_retry returns the CompletedProcess of the attempt
\* that succeeded, returns None when every attempt failed (non-zero exit
\* or exception), and raises nothing.
AttemptSucceeded(a) == a.outcome.kind = "completed" /\ a.outcome.returncode = 0

C22_ResultOrNone ==
    script.pc = "done"
        => /\ script.returned.kind # "raise"
           /\ (\E i \in 1..Len(script.attempts) : AttemptSucceeded(script.attempts[i]))
                 => script.returned = [kind |-> "CompletedProcess", returncode |-> 0]
           /\ (\A i \in 1..Len(script.attempts) : ~AttemptSucceeded(script.attempts[i]))
                 => script.returned.kind = "None"

\* the text holds one of the four markers, whatever the case of its letters
HasRetryableMarker(text) ==
    \E i \in 1..Len(retryable_errors) : Contains(Lower(text), retryable_errors[i])

\* the attempt completed and either succeeded or failed with an error
\* output holding none of the markers
EndsTheLoop(a) ==
    /\ a.outcome.kind = "completed"
    /\ a.outcome.returncode = 0 \/ ~HasRetryableMarker(a.outcome.stderr)

\* C24: the command runs at most max_retries times; an attempt that
\* succeeds, or fails with an error output holding none of the retryable
\* markers, is the last one; and when an attempt's command starts, the
\* last entry of the log is the deploy_attempt event of that attempt.
C24_BoundedAttemptsLoggedFirst ==
    /\ Len(script.attempts) <= script.max_retries
    /\ \A i \in 1..Len(script.attempts) :
          /\ script.log[script.attempts[i].logged]
                = [event_type |-> "deploy_attempt", attempt |-> i]
          /\ EndsTheLoop(script.attempts[i])
                => i = Len(script.attempts) /\ script.pc = "done"

\* a retried first attempt, then a failure without marker that ends the
\* loop although one more attempt was allowed
C24_Witness ==
    /\ script.pc = "done"
    /\ script.max_retries = 3
    /\ Len(script.attempts) = 2
    /\ script.attempts[1].slept = 10
    /\ script.attempts[2].outcome = Completed(1, AccessDeniedText)

\* deploy_orchestrator.py, line 65: show_output=True, max_retries left at
\* its default
OrchestratorCall == script.show_output /\ script.max_retries = 2

\* a failure with a transient error: an error output holding one of the
\* markers, or the command timing out
Transient(a) ==
    \/ a.outcome.kind = "completed" /\ a.outcome.returncode # 0
          /\ HasRetryableMarker(a.outcome.stderr)
    \/ a.outcome.kind = "exception" /\ a.outcome.exc = "TimeoutExpired"

\* C25: in a deployment run by the deploy orchestrator, an attempt that
\* is not the final one and fails with a transient error is followed by
\* a wait of (attempt number x 10) seconds and the run goes on to another
\* attempt instead of reporting the failure.
C25_TransientFailureRetriedAfterWait ==
    OrchestratorCall
        => \A i \in 1..Len(script.attempts) :
              (Transient(script.attempts[i]) /\ i < script.max_retries)
                  => /\ script.attempts[i].slept = i * 10
                     /\ ~(script.pc = "done" /\ Len(script.attempts) = i)

----------------------------------------------------------------------------
(* The segments of the token *)

\* header and signature segments a token can carry in place of its own
SegmentChoices == { << >>, JoseHeader, Signature, << "e", "y", "J" >> }

\* the request's first cookie entry is one cookie of a candidate name
\* whose token has three segments
PresentsThreeSegments ==
    /\ HasRequest /\ GateToken.some
    /\ Len(Split(ReceivedHeaders["cookie"][1]["value"], ";")) = 1
    /\ Len(Split(GateToken.v, ".")) = 3

\* the event, with the header and signature segments of that token
\* replaced
WithSegments(header, signature) ==
    LET text == ReceivedHeaders["cookie"][1]["value"]
        name == SplitOnce(text, "=")[1]
        token == TokenOf(header, Split(GateToken.v, ".")[2], signature)
    IN  [event EXCEPT
            !["Records"][1]["cf"]["request"]["headers"]["cookie"][1]["value"]
                = Cookie(name, token)]

\* what the gate decided: its outcome, the cookie header of a returned
\* request left aside
DecisionOf(r) ==
    [ raised |-> r.raised, exc |-> r.exc, kind |-> r.kind, caught |-> r.caught,
      checks |-> r.checks,
      value |-> IF r.kind = "request" /\ "headers" \in DOMAIN r.value
                THEN LET h == r.value["headers"]
                     IN  [r.value EXCEPT
                            !["headers"] = [k \in DOMAIN h \ { "cookie" } |-> h[k]]]
                ELSE r.value ]

\* C23: the decision depends on the payload segment alone: replacing the
\* header and signature segments of a three-segment token by any others,
\* empty ones included, leaves the gate's decision as it was.
C23_PayloadSegmentDecides ==
    (Done /\ PresentsThreeSegments)
        => \A h \in SegmentChoices, s \in SegmentChoices :
              DecisionOf(handler(WithSegments(h, s), now)) = DecisionOf(result)

\* a token with empty header and signature is served on a protected path
C23_Witness ==
    /\ Done /\ PresentsThreeSegments /\ OnProtectedPath /\ Served
    /\ GateToken.v = TokenOf(<< >>, << Base64Json(GoodDoc) >>, << >>)

----------------------------------------------------------------------------
(* cdk/config.py: DeploymentConfig and determine_environment               *)

\* str.replace of one character by another
ReplaceChar(s, a, b) == [i \in 1..Len(s) |-> IF s[i] = a THEN b ELSE s[i]]

EndsWith(s, p) == Len(s) >= Len(p) /\ SubSeq(s, Len(s) - Len(p) + 1, Len(s)) = p

StackMark == << "s", "f", "l", "t", "-" >>

AuthSuffix == << "-", "a", "u", "t", "h" >>

SiteSuffix == << "-", "s", "i", "t", "e" >>

\* lines 20-25
stack_prefix(branch) == StackMark \o Lower(ReplaceChar(ReplaceChar(branch, "/", "-"), "_", "-"))

\* lines 32-38
auth_stack_name(branch) == stack_prefix(branch) \o AuthSuffix

static_site_stack_name(branch) == stack_prefix(branch) \o SiteSuffix

MainBranch == << "m", "a", "i", "n" >>

DevelopBranch == << "d", "e", "v", "e", "l", "o", "p" >>

\* lines 72-81
determine_environment(branch) ==
    IF branch = MainBranch THEN "prod"
    ELSE IF branch = DevelopBranch THEN "staging"
    ELSE IF StartsWith(branch, << "f", "e", "a", "t", "u", "r", "e", "/" >>) \/ StartsWith(branch, << "f", "i", "x", "/" >>)
         THEN "feature"
         ELSE "dev"

----------------------------------------------------------------------------
(* scripts/destroy_orchestrator.py                                          *)

\* line 59: the text the operator has to type
ConfirmText == << "d", "e", "s", "t", "r", "o", "y", "-", "p", "r", "o", "d" >>

\* what the operator types at the prompt
TypedInputs ==
    { ConfirmText, << >>, << "y" >>, << "y", "e", "s" >>,
      SubSeq(ConfirmText, 1, Len(ConfirmText) - 1),
      ConfirmText \o << " " >>, << " " >> \o ConfirmText,
      ConfirmText \o << "!" >>,
      << "D" >> \o Tail(ConfirmText), SubSeq(ConfirmText, 1, 7) }

DestroyBranches ==
    { MainBranch, DevelopBranch, << "M" >> \o Tail(MainBranch),
      << "f", "e", "a", "t", "u", "r", "e", "/", "x" >>, << "h", "o", "t", "f", "i", "x" >> }

\* line 59
ConfirmedByPrefix(confirm) == StartsWith(confirm, ConfirmText)

Confirmed(confirm) == ~(confirm # ConfirmText)

\* lines 183 and 195
ReplicatedText == << "r", "e", "p", "l", "i", "c", "a", "t", "e", "d", " ", "f", "u", "n", "c", "t", "i", "o", "n" >>

\* the DestroyResult dataclass, lines 30-37
DestroyResult(success, lambda_edge_blocked, in_progress) ==
    [success |-> success, lambda_edge_blocked |-> lambda_edge_blocked,
     in_progress |-> in_progress]

NotAttempted == [success |-> FALSE, lambda_edge_blocked |-> FALSE, in_progress |-> FALSE]

\* what `cdk destroy <stack> --force` can do
DestroyOutcomes ==
    { Completed(0, << >>), Completed(1, ReplicatedText), Completed(1, AccessDeniedText),
      RunRaises("TimeoutExpired"), RunRaises("OSError") }

\* destroy_site_stack, lines 166-198: the streams are not captured
\* (show_output=True), so error_msg is "Unknown error" for every failure
destroy_site_stack(outcome) ==
    IF outcome.kind = "exception"
    THEN DestroyResult(FALSE, FALSE, outcome.exc = "TimeoutExpired")
    ELSE LET res == run_command(outcome, TRUE)
         IN  IF res.returncode = 0
             THEN DestroyResult(TRUE, FALSE, FALSE)
             ELSE DestroyResult(FALSE, Contains(ErrorOutput(res), ReplicatedText), FALSE)

\* destroy_auth_stack, lines 201-227
destroy_auth_stack(outcome) ==
    IF outcome.kind = "exception"
    THEN DestroyResult(FALSE, FALSE, FALSE)
    ELSE DestroyResult(run_command(outcome, TRUE).returncode = 0, FALSE, FALSE)

\* destroy_stacks_individually, lines 139-162
DestructionResult(site_result, auth_result) ==
    IF site_result.lambda_edge_blocked /\ auth_result.success THEN "partial_success"
    ELSE IF site_result.success /\ auth_result.success THEN "complete"
    ELSE IF site_result.in_progress
         THEN IF auth_result.success THEN "partial_success" ELSE "failed"
         ELSE "failed"

DestroyInit ==
    /\ \E b \in DestroyBranches, t \in TypedInputs :
          script = [ name |-> "destroy_orchestrator", branch |-> b,
                     environment |-> determine_environment(b), typed |-> t,
                     pc |-> "start", log |-> << >>, commands |-> << >>,
                     stacks |-> { auth_stack_name(b), static_site_stack_name(b) },
                     site |-> NotAttempted, auth |-> NotAttempted,
                     asked |-> FALSE, exited |-> FALSE, exit |-> 0 ]
    /\ event = EmptyDict /\ now = 0 /\ request = EmptyDict
    /\ result = NotInvoked /\ pc = "ready" /\ config = ModuleConfig

\* main, lines 49-62: the start is logged and, in prod, the operator is
\* asked
ConfirmDestruction ==
    /\ script.pc = "start"
    /\ LET log1 == Append(script.log, "destruction_start")
       IN  IF script.environment = "prod"
           THEN IF ~Confirmed(script.typed)
                THEN script' = [ script EXCEPT
                        !.log = Append(log1, "destruction_cancelled"),
                        !.asked = TRUE, !.exited = TRUE, !.exit = 0, !.pc = "done" ]
                ELSE script' = [script EXCEPT !.log = log1, !.asked = TRUE, !.pc = "site"]
           ELSE script' = [script EXCEPT !.log = log1, !.pc = "site"]
    /\ UNCHANGED gateVars

\* destroy_stacks_individually, line 134
DestroySite ==
    /\ script.pc = "site"
    /\ \E outcome \in DestroyOutcomes :
          LET name == static_site_stack_name(script.branch)
              res == destroy_site_stack(outcome)
          IN  script' = [ script EXCEPT
                  !.commands = Append(@, name),
                  !.stacks = IF res.success THEN @ \ { name } ELSE @,
                  !.site = res, !.pc = "auth" ]
    /\ UNCHANGED gateVars

\* destroy_stacks_individually, line 137
DestroyAuth ==
    /\ script.pc = "auth"
    /\ \E outcome \in DestroyOutcomes :
          LET name == auth_stack_name(script.branch)
              res == destroy_auth_stack(outcome)
          IN  script' = [ script EXCEPT
                  !.commands = Append(@, name),
                  !.stacks = IF res.success THEN @ \ { name } ELSE @,
                  !.auth = res, !.pc = "report" ]
    /\ UNCHANGED gateVars

\* main, lines 78-93
ReportDestruction ==
    /\ script.pc = "report"
    /\ LET res == DestructionResult(script.site, script.auth)
       IN  script' = [ script EXCEPT
               !.log = IF res = "complete" THEN Append(@, "destruction_completed")
                       ELSE IF res = "failed" THEN Append(@, "destruction_failed")
                       ELSE @,
               !.exit = IF res = "partial_success" THEN 2
                        ELSE IF res = "complete" THEN 0 ELSE 1,
               !.exited = TRUE, !.pc = "done" ]
    /\ UNCHANGED gateVars

DestroyNext == ConfirmDestruction \/ DestroySite \/ DestroyAuth \/ ReportDestruction

DestroySpec == DestroyInit /\ [][DestroyNext]_vars

\* C26: in the prod environment no stack-destroy command runs unless the
\* operator typed exactly destroy-prod; after any other input the run
\* logs destruction_cancelled and exits 0, and both stacks are still
\* there.
C26_ProdNeedsExactConfirmation ==
    (script.environment = "prod" /\ script.typed # ConfirmText)
        => /\ script.commands = << >>
           /\ script.stacks = { auth_stack_name(script.branch),
                                static_site_stack_name(script.branch) }
           /\ script.pc = "done"
                 => /\ script.exited /\ script.exit = 0
                    /\ script.log = << "destruction_start", "destruction_cancelled" >>

\* the operator typed the text followed by a space and the run was
\* cancelled
C26_Witness ==
    /\ script.environment = "prod" /\ script.pc = "done"
    /\ script.typed = ConfirmText \o << " " >>
    /\ script.exited /\ script.commands = << >>

----------------------------------------------------------------------------
(* scripts/deploy_orchestrator.py                                           *)

\* the latest modification time a file has when the run starts
MaxMtime == 2

NoSuchFile == [exists |-> FALSE, mtime |-> 0, content |-> "none"]

FileAt(mtime, content) == [exists |-> TRUE, mtime |-> mtime, content |-> content]

\* check_lambda_needs_update, lines 33-44
check_lambda_needs_update(template, generated) ==
    IF ~template.exists THEN FALSE
    ELSE IF ~generated.exists THEN TRUE
    ELSE template.mtime > generated.mtime

\* generate_lambda_code_from_template, generate_lambda_code.py lines
\* 87-143: the handler is written, with the stack's current values, when
\* the auth stack's outputs are there and the template exists
CanGenerate(template, has_outputs) == has_outputs /\ template.exists

\* what deploy_with_retry gives the orchestrator
DeployResults ==
    { [kind |-> "CompletedProcess", returncode |-> 0],
      [kind |-> "CompletedProcess", returncode |-> 1], ReturnNone, Reraise }

\* lines 67 and 105: `result and result.returncode == 0`
DeploySucceeded(res) == res.kind = "CompletedProcess" /\ res.returncode = 0

DeployInit ==
    /\ \E t \in { NoSuchFile } \cup { FileAt(m, "template") : m \in 0..MaxMtime },
          g \in { NoSuchFile }
                \cup { FileAt(m, c) : m \in 0..MaxMtime, c \in { "stale", "current" } },
          o \in BOOLEAN :
          script = [ name |-> "deploy_orchestrator", pc |-> "phase1", clock |-> MaxMtime,
                     template |-> t, generated |-> g, has_outputs |-> o,
                     deployed |-> "none", config_success |-> FALSE,
                     regenerated |-> FALSE, redeployed |-> FALSE,
                     log |-> << >>, exited |-> FALSE, exit |-> 0 ]
    /\ event = EmptyDict /\ now = 0 /\ request = EmptyDict
    /\ result = NotInvoked /\ pc = "ready" /\ config = ModuleConfig

\* main, lines 56-72: all stacks are deployed, the site stack with the
\* handler file as it is now
InitialDeployment ==
    /\ script.pc = "phase1"
    /\ \E res \in DeployResults :
          LET log1 == Append(script.log, "deployment_start")
          IN  IF DeploySucceeded(res)
              THEN script' = [ script EXCEPT
                      !.log = log1, !.deployed = script.generated.content,
                      !.clock = @ + 1, !.pc = "phase2" ]
              ELSE script' = [ script EXCEPT
                      !.log = IF res.kind = "raise" THEN log1
                              ELSE Append(log1, "deployment_failed"),
                      !.clock = @ + 1, !.exited = TRUE, !.exit = 1, !.pc = "done" ]
    /\ UNCHANGED gateVars

\* main, lines 77-87: generate_configs.main writes the handler file when
\* it can and returns 0 whatever happened; an exception inside it is
\* caught here
ConfigurationConvergence ==
    /\ script.pc = "phase2"
    /\ \E raises \in BOOLEAN :
          LET writes == ~raises /\ CanGenerate(script.template, script.has_outputs)
          IN  script' = [ script EXCEPT
                  !.generated = IF writes THEN FileAt(script.clock + 1, "current") ELSE @,
                  !.regenerated = writes,
                  !.config_success = ~raises,
                  !.clock = @ + 1, !.pc = "phase3" ]
    /\ UNCHANGED gateVars

\* main, lines 89-158
LambdaUpdate ==
    /\ script.pc = "phase3"
    /\ \E res \in DeployResults :
          LET ended == [ script EXCEPT
                  !.log = Append(@, "deployment_end"),
                  !.exited = TRUE, !.exit = 0, !.pc = "done" ]
          IN  IF script.config_success
                 /\ check_lambda_needs_update(script.template, script.generated)
              THEN IF DeploySucceeded(res)
                   THEN script' = [ ended EXCEPT
                           !.deployed = script.generated.content, !.redeployed = TRUE ]
                   ELSE script' = [ script EXCEPT
                           !.log = IF res.kind = "raise" THEN @
                                   ELSE Append(@, "deployment_failed"),
                           !.exited = TRUE, !.exit = 1, !.pc = "done" ]
              ELSE script' = ended
    /\ UNCHANGED gateVars

DeployNext == InitialDeployment \/ ConfigurationConvergence \/ LambdaUpdate

DeploySpec == DeployInit /\ [][DeployNext]_vars

\* C27: when phase 2 has written the handler file from its template and
\* the run reports completion, phase 3 has redeployed the site stack and
\* the deployed handler is the regenerated one.
C27_RegeneratedCodeIsRedeployed ==
    (script.exited /\ script.exit = 0 /\ script.regenerated)
        => /\ script.redeployed
           /\ script.deployed = script.generated.content

----------------------------------------------------------------------------
(* scripts/cleanup_feature_branches.py                                      *)

\* at most this many branches are deployed, and at most this many active
MaxBranches == 2

\* extract_branch_from_stack_name, lines 179-192; None is NoText
extract_branch_from_stack_name(stack_name) ==
    IF StartsWith(stack_name, StackMark)
    THEN LET branch_part == SubSeq(stack_name, 6, Len(stack_name))
             stripped == IF EndsWith(branch_part, AuthSuffix) \/ EndsWith(branch_part, SiteSuffix)
                         THEN SubSeq(branch_part, 1, Len(branch_part) - 5)
                         ELSE branch_part
         IN  SomeText(ReplaceChar(stripped, "-", "/"))
    ELSE NoText

\* find_feature_stacks, lines 137-161: the stack is put on the list
IsSelected(stack_name, old_enough, active_branches) ==
    /\ StartsWith(stack_name, StackMark)
    /\ ~(Contains(stack_name, StackMark \o MainBranch)
            \/ Contains(stack_name, StackMark \o DevelopBranch))
    /\ LET branch_from_stack == extract_branch_from_stack_name(stack_name)
       IN  ~(branch_from_stack.some /\ branch_from_stack.v \in active_branches)
    /\ old_enough

\* branch names
CleanupBranches ==
    { MainBranch, DevelopBranch, << "f", "e", "a", "t", "u", "r", "e", "/", "x" >>, << "h", "o", "t", "f", "i", "x" >>,
      << "f", "e", "a", "t", "u", "r", "e", "/", "m", "y", "-", "t", "h", "i", "n", "g" >>, << "f", "i", "x", "/", "a", "_", "b" >>, << "F", "e", "a", "t", "u", "r", "e", "/", "X" >> }

StacksOf(branch) == { auth_stack_name(branch), static_site_stack_name(branch) }

\* line 95: the answers to "Delete these stacks? (y/N)"
Answers == { << "y" >>, << "Y", "e", "s" >>, << "N" >>, << >> }

CleanupInit ==
    /\ \E deployed \in SUBSET CleanupBranches, active \in SUBSET CleanupBranches :
          /\ Cardinality(deployed) <= MaxBranches
          /\ Cardinality(active) <= MaxBranches
          /\ \E young \in SUBSET deployed :
                script = [ name |-> "cleanup_feature_branches", pc |-> "find",
                           deployed |-> deployed, active |-> active, young |-> young,
                           stacks |-> UNION { StacksOf(b) : b \in deployed },
                           selected |-> {}, exited |-> FALSE, exit |-> 0 ]
    /\ event = EmptyDict /\ now = 0 /\ request = EmptyDict
    /\ result = NotInvoked /\ pc = "ready" /\ config = ModuleConfig

\* main, lines 40-67: the stacks of both regions are listed and those to
\* delete are selected
FindFeatureStacks ==
    /\ script.pc = "find"
    /\ LET old_stacks ==
               { s \in script.stacks :
                   IsSelected(s, \E b \in script.deployed \ script.young : s \in StacksOf(b),
                              script.active) }
       IN  script' = [ script EXCEPT
               !.selected = old_stacks,
               !.exited = old_stacks = {},
               !.pc = IF old_stacks = {} THEN "done" ELSE "confirm" ]
    /\ UNCHANGED gateVars

\* main, lines 94-103
DeleteStacks ==
    /\ script.pc = "confirm"
    /\ \E answer \in Answers :
          script' = [ script EXCEPT
              !.stacks = IF StartsWith(Lower(answer), << "y" >>) THEN @ \ script.selected ELSE @,
              !.exited = TRUE, !.pc = "done" ]
    /\ UNCHANGED gateVars

CleanupNext == FindFeatureStacks \/ DeleteStacks

CleanupSpec == CleanupInit /\ [][CleanupNext]_vars

\* C28: once the stacks are selected, the stack names of every deployed
\* branch give the branch name back, and no stack of a branch in the
\* active list is among those selected for deletion.
C28_ActiveBranchStacksKept ==
    script.pc # "find"
        => /\ \A b \in script.deployed :
                 \A s \in StacksOf(b) : extract_branch_from_stack_name(s) = SomeText(b)
           /\ \A b \in script.deployed \cap script.active :
                 StacksOf(b) \cap script.selected = {}

----------------------------------------------------------------------------
(* The two headers of the authenticated branch *)

\* the request carries x-authenticated-user, and x-lambda-edge with the
\* value authenticated
CarriesAuthHeaders(req) ==
    /\ "headers" \in DOMAIN req
    /\ "x-authenticated-user" \in DOMAIN req["headers"]
    /\ "x-lambda-edge" \in DOMAIN req["headers"]
    /\ \E i \in 1..Len(req["headers"]["x-lambda-edge"]) :
          req["headers"]["x-lambda-edge"][i]["value"] = << "authenticated" >>

\* C29: a returned request carries x-authenticated-user and
\* x-lambda-edge=authenticated only when the path is protected and the
\* token the request presented passes the four checks; on every other
\* outcome it carries neither, whatever the client sent.
C29_AuthHeadersOnlyFromValidToken ==
    (Done /\ ReturnsRequest /\ CarriesAuthHeaders(result.value))
        => /\ OnProtectedPath
           /\ GatePayload.some /\ FourChecksPass(GatePayload.doc, now)

\* C30: on a protected path whose query string holds code=, the OAuth
\* callback branch is not taken, a request is returned only for a token
\* that passes the four checks, and every other request is redirected to
\* login.
C30_CodeParamDoesNotBypass ==
    (Done /\ OnProtectedPath /\ Contains(ReceivedQuery, CodeParam))
        => /\ result.checks # << "oauth_callback" >>
           /\ ReturnsRequest => GatePayload.some /\ FourChecksPass(GatePayload.doc, now)
           /\ ~(GatePayload.some /\ FourChecksPass(GatePayload.doc, now)) => IsRedirect

====
